---- MODULE Spec2Model ----
(***************************************************************************)
(* Model of @poppinss/defer: the DeferQueue class (src/unnamed/part_001,   *)
(* lines 276-469) on top of the fastq executor it imports (line 276).      *)
(*                                                                         *)
(* Every DeferQueue method is one action.  A method body is a synchronous  *)
(* chain of calls, so each action is computed by composing operators over  *)
(* a record of the program state (St), and then assigned back (Assign).    *)
(* The only asynchronous step is the settling of a task body: the worker   *)
(* `await`s it and calls `done` from a later microtask (action Settle).    *)
(*                                                                         *)
(* Hooks do not call back into the queue and return normally, except in    *)
(* SpecHooks, where onError and taskCompleted may be functions that throw; *)
(* task bodies are asynchronous operations (they never throw               *)
(* synchronously from the call itself).  A task body may reject with any   *)
(* JavaScript value, in particular with a falsy one (`throw undefined`,    *)
(* `Promise.reject()`).                                                    *)
(*                                                                         *)
(* The executor operators (Fq...) follow fastq's queue.js, a dependency    *)
(* whose code is not part of this repository.                              *)
(***************************************************************************)
EXTENDS Integers, Sequences, FiniteSets, TLC

\* ---------------------------------------------------------------- bounds
MaxTasks == 3
MaxNotifiers == 2
MaxConcurrency == 2

\* ---------------------------------------------------------------- inputs
\* the two admissible shapes of a DeferCallback (src/types.ts); submitted
\* tasks alternate between them
Shapes == {"function", "object"}
TaskShape(id) == IF id % 2 = 1 THEN "function" ELSE "object"

\* what a task body may return, and what it may throw or reject with
Responses == {"sent"}
Errors == {"boom", "undefined"}

\* JavaScript truthiness of the values passed as `error`
Truthy(v) == v \notin {"null", "undefined"}
DrainHooks == {"d1", "d2"}

\* the name each submitted task carries (function name or `name` field)
TaskName(id) == <<"sendEmail", "createInvoice", "refreshCache", "taskFour", "taskFive">>[id]

\* which of onError, taskCompleted, taskAdded the caller has assigned
HookConfigs == {<<FALSE, FALSE, FALSE>>, <<TRUE, TRUE, TRUE>>}

\* the `options` the constructor may get: {} is no concurrency option
\* (new DeferQueue() or new DeferQueue({})), {n} is { concurrency: n }
Options == {{}} \cup {{n} : n \in 1..MaxConcurrency}

\* mutant: the constructor ignores the option
ConcurrencyIgnoresOption(options) == 10

\* options?.concurrency ?? 10
Concurrency(options) ==
  IF options = {} THEN 10 ELSE CHOOSE n \in options : TRUE

TaskIds == 1..MaxTasks
NotifierIds == 1..MaxNotifiers

\* What a task body does when it settles: returns/resolves or throws/rejects
Outcomes == [ok : {TRUE}, val : Responses] \cup [ok : {FALSE}, val : Errors]

\* ---------------------------------------------------------------- state
VARIABLES
  concurrency,    \* options.concurrency given to fastq
  paused,         \* fastq self.paused
  queue,          \* fastq queueHead..queueTail, as a sequence of tasks
  running,        \* fastq _running
  drain,          \* fastq self.drain slot: "noop" or a caller's hook
  drainCallback,  \* DeferQueue.#drainCallback: "undefined" or a hook
  notifiers,      \* DeferQueue.#notifiers: waiting list of Deferred ids
  deferred,       \* state of each Deferred's promise
  onError,        \* is the onError hook assigned
  taskCompleted,  \* is the taskCompleted hook assigned
  taskAdded,      \* is the taskAdded hook assigned
  inflight,       \* worker invocations awaiting their task body
  events,         \* observable calls made by the last operation, in order
  last,           \* the last operation
  nextTask,       \* id of the next task to be submitted
  nextNotifier,   \* id of the next Deferred to be created
  completions,    \* number of completion-handler invocations so far
  hist,           \* history kept per task and per notifier
  track,          \* whether hist also records how each task was submitted
  order,          \* whether hist also records where each task entered the queue
  throws          \* the hooks among onError, taskCompleted that throw

vars == <<concurrency, paused, queue, running, drain, drainCallback, notifiers,
          deferred, onError, taskCompleted, taskAdded, inflight, events, last,
          nextTask, nextNotifier, completions, hist, track, order,
          throws>>

Pending == [status |-> "pending", name |-> "", val |-> ""]

Ev(type, id, name, val, status) ==
  [type |-> type, id |-> id, name |-> name, val |-> val, status |-> status]

\* The program state as one record, so that call chains compose
St ==
  [concurrency |-> concurrency, paused |-> paused, queue |-> queue,
   running |-> running, drain |-> drain, drainCallback |-> drainCallback,
   notifiers |-> notifiers, deferred |-> deferred, onError |-> onError,
   taskCompleted |-> taskCompleted, taskAdded |-> taskAdded,
   inflight |-> inflight, events |-> <<>>, throws |-> throws, exc |-> FALSE]

Emit(s, e) == [s EXCEPT !.events = Append(@, e)]

\* hook(...): the call is observed, and the hook may throw (s.exc: an
\* exception is propagating up the call chain)
CallHook(s, hook, e) ==
  IF hook \in s.throws THEN [Emit(s, e) EXCEPT !.exc = TRUE] ELSE Emit(s, e)


\* ------------------------------------------------- fastq (the executor)
\* self.drain(): the slot holds fastq's own noop until a hook is stored
CallDrain(s) ==
  IF s.drain = "noop" THEN s ELSE Emit(s, Ev("drained", 0, "", s.drain, ""))

\* typeof cb === 'function' ? cb() : cb.run()
Invoke(cb) == IF cb.shape = "function" THEN "cb()" ELSE "cb.run()"

\* worker.call(context, value, worked): the async worker runs up to its await
WorkerCall(s, cb) ==
  Emit([s EXCEPT !.inflight = @ \cup {cb}], Ev("start", cb.id, cb.name, Invoke(cb), ""))

\* fastq release(): start the next pending task or give the slot back
FqRelease(s) ==
  IF s.queue # <<>> /\ s.running <= s.concurrency
  THEN IF ~s.paused
       THEN WorkerCall([s EXCEPT !.queue = Tail(@)], Head(s.queue))
       ELSE [s EXCEPT !.running = @ - 1]
  ELSE LET r == [s EXCEPT !.running = @ - 1]
       IN IF r.running = 0 THEN CallDrain(r) ELSE r

\* fastq push(value, done)
FqPush(s, cb) ==
  IF s.running >= s.concurrency \/ s.paused
  THEN [s EXCEPT !.queue = Append(@, cb)]
  ELSE WorkerCall([s EXCEPT !.running = @ + 1], cb)

\* fastq unshift(value, done)
FqUnshift(s, cb) ==
  IF s.running >= s.concurrency \/ s.paused
  THEN [s EXCEPT !.queue = <<cb>> \o @]
  ELSE WorkerCall([s EXCEPT !.running = @ + 1], cb)

\* fastq pause()
FqPause(s) == [s EXCEPT !.paused = TRUE]

RECURSIVE FqResumeLoop(_)
\* for (; queueHead && _running < _concurrency;) { _running++; release() }
FqResumeLoop(s) ==
  IF s.queue # <<>> /\ s.running < s.concurrency
  THEN FqResumeLoop(FqRelease([s EXCEPT !.running = @ + 1]))
  ELSE s

\* fastq resume()
FqResume(s) ==
  IF ~s.paused
  THEN s
  ELSE LET r == [s EXCEPT !.paused = FALSE]
       IN IF r.queue = <<>>
          THEN FqRelease([r EXCEPT !.running = @ + 1])
          ELSE FqResumeLoop(r)

\* fastq killAndDrain()
FqKillAndDrain(s) == [CallDrain([s EXCEPT !.queue = <<>>]) EXCEPT !.drain = "noop"]

\* fastq idle()
FqIdle(s) == s.running = 0 /\ Len(s.queue) = 0

\* fastq length()
FqLength(s) == Len(s.queue)

\* ------------------------------------------------------------ Deferred
\* Deferred.resolve(value): settles the promise once, later calls are no-ops
Resolve(s, n, value) ==
  Emit([s EXCEPT !.deferred[n] = IF @ = Pending THEN value ELSE @],
       Ev("resolve", n, value.name, value.val, value.status))

\* ---------------------------------------------------------- DeferQueue
\* mutant: the waiting list is popped from the tail (pop() for shift())
NotifierLifo(s, error, taskResult) ==
  LET awaitingNotifier == IF s.notifiers = <<>> THEN 0
                          ELSE s.notifiers[Len(s.notifiers)]
      s1 == Emit([s EXCEPT !.notifiers =
                    IF @ = <<>> THEN @ ELSE SubSeq(@, 1, Len(@) - 1)],
                 Ev("handler", awaitingNotifier, taskResult.name, error, ""))
  IN IF Truthy(error)
     THEN LET s2 == IF s1.onError
                    THEN CallHook(s1, "onError",
                                  Ev("onError", 0, taskResult.name, error, ""))
                    ELSE s1
          IN IF s2.exc THEN s2
             ELSE IF awaitingNotifier # 0
             THEN Resolve(s2, awaitingNotifier,
                          [status |-> "rejected", name |-> "", val |-> error])
             ELSE s2
     ELSE LET s2 == IF s1.taskCompleted
                    THEN CallHook(s1, "taskCompleted",
                                  Ev("taskCompleted", 0, taskResult.name,
                                     taskResult.response, ""))
                    ELSE s1
          IN IF s2.exc THEN s2
             ELSE IF awaitingNotifier # 0
             THEN Resolve(s2, awaitingNotifier,
                          [status |-> "fulfilled", name |-> taskResult.name,
                           val |-> taskResult.response])
             ELSE s2

\* mutant: the waiting notifier is resolved before the hook is called
NotifierResolvesFirst(s, error, taskResult) ==
  LET awaitingNotifier == IF s.notifiers = <<>> THEN 0 ELSE Head(s.notifiers)
      s1 == Emit([s EXCEPT !.notifiers = IF @ = <<>> THEN @ ELSE Tail(@)],
                 Ev("handler", awaitingNotifier, taskResult.name, error, ""))
  IN IF Truthy(error)
     THEN LET s2 == IF awaitingNotifier # 0
                    THEN Resolve(s1, awaitingNotifier,
                                 [status |-> "rejected", name |-> "", val |-> error])
                    ELSE s1
          IN IF s2.onError
             THEN CallHook(s2, "onError", Ev("onError", 0, taskResult.name, error, ""))
             ELSE s2
     ELSE LET s2 == IF awaitingNotifier # 0
                    THEN Resolve(s1, awaitingNotifier,
                                 [status |-> "fulfilled", name |-> taskResult.name,
                                  val |-> taskResult.response])
                    ELSE s1
          IN IF s2.taskCompleted
             THEN CallHook(s2, "taskCompleted",
                           Ev("taskCompleted", 0, taskResult.name,
                              taskResult.response, ""))
             ELSE s2

\* #notifier(error, taskResult); 0 stands for `undefined` (empty list)
Notifier(s, error, taskResult) ==
  LET awaitingNotifier == IF s.notifiers = <<>> THEN 0 ELSE Head(s.notifiers)
      s1 == Emit([s EXCEPT !.notifiers = IF @ = <<>> THEN @ ELSE Tail(@)],
                 Ev("handler", awaitingNotifier, taskResult.name, error, ""))
  IN IF Truthy(error)
     THEN LET s2 == IF s1.onError
                    THEN CallHook(s1, "onError",
                                  Ev("onError", 0, taskResult.name, error, ""))
                    ELSE s1
          IN IF s2.exc THEN s2
             ELSE IF awaitingNotifier # 0
             THEN Resolve(s2, awaitingNotifier,
                          [status |-> "rejected", name |-> "", val |-> error])
             ELSE s2
     ELSE LET s2 == IF s1.taskCompleted
                    THEN CallHook(s1, "taskCompleted",
                                  Ev("taskCompleted", 0, taskResult.name,
                                     taskResult.response, ""))
                    ELSE s1
          IN IF s2.exc THEN s2
             ELSE IF awaitingNotifier # 0
             THEN Resolve(s2, awaitingNotifier,
                          [status |-> "fulfilled", name |-> taskResult.name,
                           val |-> taskResult.response])
             ELSE s2

\* fastq Task.worked(err, result), the `done` the worker gets: it takes the
\* callback given to push (#notifier) out of the task, calls it, then
\* releases the slot; an exception thrown by the callback leaves worked
\* before release
Worked(s, err, result) ==
  LET s1 == Notifier(Emit(s, Ev("done", 0, result.name, err, "")), err, result)
  IN IF s1.exc THEN s1 ELSE FqRelease(s1)

\* a further call of the same `done`: the callback was taken out by the
\* first call, so only the slot is released
WorkedAgain(s, err, result) ==
  FqRelease(Emit(s, Ev("done", 0, result.name, err, "")))

\* the async worker ends: an exception still propagating rejects the
\* promise it returned, which nobody handles
WorkerEnd(s) ==
  IF s.exc
  THEN Emit([s EXCEPT !.exc = FALSE], Ev("unhandledRejection", 0, "", "hookError", ""))
  ELSE s

\* mutant: the catch block swallows the failure without calling done
WorkerSwallowsError(s, cb, out) ==
  LET s1 == [s EXCEPT !.inflight = @ \ {cb}]
  IN IF out.ok
     THEN Worked(s1, "null", [name |-> cb.name, response |-> out.val])
     ELSE s1

\* the worker given to fastq, from the point where the awaited body settles:
\* done(null, ...) is inside the try block, so what a hook throws under it
\* is caught and done is called again with that error
Worker(s, cb, out) ==
  LET s1 == [s EXCEPT !.inflight = @ \ {cb}]
  IN IF out.ok
     THEN LET s2 == Worked(s1, "null", [name |-> cb.name, response |-> out.val])
          IN IF s2.exc
             THEN WorkerEnd(WorkedAgain([s2 EXCEPT !.exc = FALSE], "hookError",
                                        [name |-> cb.name, response |-> "undefined"]))
             ELSE s2
     ELSE WorkerEnd(Worked(s1, out.val, [name |-> cb.name, response |-> "undefined"]))

\* mutant: the setter remembers the callback but does not hand it to fastq
DoSetDrainedNoForward(s, callback) == [s EXCEPT !.drainCallback = callback]

\* set drained(callback)
DoSetDrained(s, callback) ==
  [s EXCEPT !.drainCallback = callback, !.drain = callback]

\* createNotifier(): n is the new Deferred
DoCreateNotifier(s, n) ==
  [s EXCEPT !.notifiers = Append(@, n), !.deferred[n] = Pending]

\* mutant: push(task) calls the taskAdded hook after handing the task over
DoPushAddedAfter(s, task) ==
  LET s1 == FqPush(s, task)
  IN IF s1.taskAdded
     THEN Emit(s1, Ev("taskAdded", task.id, task.name, task.shape, ""))
     ELSE s1

\* mutant: push(task) hands the task to the executor's unshift
DoPushFront(s, task) ==
  FqUnshift(IF s.taskAdded
            THEN Emit(s, Ev("taskAdded", task.id, task.name, task.shape, ""))
            ELSE s, task)

\* mutant: unshift(task) hands the task to the executor's push
DoUnshiftBack(s, task) ==
  FqPush(IF s.taskAdded
         THEN Emit(s, Ev("taskAdded", task.id, task.name, task.shape, ""))
         ELSE s, task)

\* push(task)
DoPush(s, task) ==
  FqPush(IF s.taskAdded
         THEN Emit(s, Ev("taskAdded", task.id, task.name, task.shape, ""))
         ELSE s, task)

\* unshift(task)
DoUnshift(s, task) ==
  FqUnshift(IF s.taskAdded
            THEN Emit(s, Ev("taskAdded", task.id, task.name, task.shape, ""))
            ELSE s, task)

\* mutant: pause() does not reach the executor
DoPauseNoop(s) == s

\* pause()
DoPause(s) == FqPause(s)

\* resume()
DoResume(s) == FqResume(s)

\* mutant: isIdle() looks at the pending tasks only
IsIdleIgnoresRunning(s) == FqLength(s) = 0

\* isIdle()
IsIdle(s) == FqIdle(s)

\* mutant: size() also counts the tasks in flight
SizeCountsRunning(s) == FqLength(s) + s.running

\* size()
Size(s) == FqLength(s)

\* mutant: kill() calls fastq kill(), which empties the queue without draining
DoKillNoDrain(s) ==
  LET s1 == [s EXCEPT !.queue = <<>>, !.drain = "noop"]
  IN IF s1.drainCallback # "undefined"
     THEN [s1 EXCEPT !.drain = s1.drainCallback]
     ELSE s1

\* mutant: kill() also empties the waiting list of notifiers
DoKillDropsNotifiers(s) ==
  LET s1 == [FqKillAndDrain(s) EXCEPT !.notifiers = <<>>]
  IN IF s1.drainCallback # "undefined"
     THEN [s1 EXCEPT !.drain = s1.drainCallback]
     ELSE s1

\* mutant: kill() does not put the caller's drain hook back
DoKillNoRestore(s) == FqKillAndDrain(s)

\* kill()
DoKill(s) ==
  LET s1 == FqKillAndDrain(s)
  IN IF s1.drainCallback # "undefined"
     THEN [s1 EXCEPT !.drain = s1.drainCallback]
     ELSE s1

\* ------------------------------------------------------------- history
\* What the caller did and observed, recorded beside the program state:
\* per task its fate and the hook calls made for it, per notifier when it
\* was created and which completion resolved it.
NoOutcome == [ok |-> FALSE, val |-> "none"]

TaskHist0 ==
  [status |-> "none", watch |-> 0, afterKill |-> FALSE, out |-> NoOutcome, idx |-> 0, handler |-> 0,
   onError |-> 0, taskCompleted |-> 0, via |-> "", before |-> 0, added |-> 0,
   done |-> 0]

NotifHist0 == [due |-> 0, at |-> 0, by |-> 0]

Hist0 ==
  [task |-> [t \in TaskIds |-> TaskHist0],
   notif |-> [n \in NotifierIds |-> NotifHist0],
   drained |-> "undefined", paused |-> FALSE, options |-> {}]

Count(evs, type) == Cardinality({i \in DOMAIN evs : evs[i].type = type})

Of(evs, type) == SelectSeq(evs, LAMBDA e : e.type = type)

Ids(evs) == {evs[i].id : i \in DOMAIN evs}

StartedIds(evs) == Ids(Of(evs, "start"))

ResolvedIds(evs) == Ids(Of(evs, "resolve"))

QueueIds(q) == {q[i].id : i \in DOMAIN q}

\* tasks whose worker was called by the operation are now running
MarkStarted(h, evs) ==
  [h EXCEPT !.task = [t \in TaskIds |->
      IF t \in StartedIds(evs) THEN [@[t] EXCEPT !.status = "running"] ELSE @[t]]]

\* a task is submitted; `afterKill` tells that an earlier kill() discarded
\* some task and, when tracked, `watch` is the notifier the caller created
\* just before submitting it (createNotifier(); push(task)), 0 if none;
\* when ordered, `via` is the method that submitted it and `before` is the
\* pending task an unshift put it in front of, 0 if nothing was pending;
\* `added` counts the taskAdded calls made for it
Admit(h, task, via, evs) ==
  [h EXCEPT !.task[task.id] =
     [@ EXCEPT !.status = "pending",
               !.watch = IF track /\ last.op = "createNotifier" THEN last.id ELSE 0,
               !.afterKill = \E t \in TaskIds : h.task[t].status = "discarded",
               !.added = @ + Count(evs, "taskAdded"),
               !.via = IF order THEN via ELSE "",
               !.before = IF order /\ via = "unshift" /\ queue # <<>>
                          THEN Head(queue).id ELSE 0]]

\* the completion of task cb was delivered by the events evs
MarkSettled(h, cb, out, evs, index) ==
  [h EXCEPT
     !.task[cb.id] = [@ EXCEPT !.status = "settled", !.out = out, !.idx = index,
                               !.handler = @ + Count(evs, "handler"),
                               !.done = @ + Count(evs, "done"),
                               !.onError = @ + Count(evs, "onError"),
                               !.taskCompleted = @ + Count(evs, "taskCompleted")],
     !.notif = [n \in NotifierIds |->
                  IF n \in ResolvedIds(evs) /\ @[n].at = 0
                  THEN [@[n] EXCEPT !.at = index, !.by = cb.id]
                  ELSE @[n]]]

\* ------------------------------------------------------------- actions
Assign(s) ==
  /\ concurrency' = s.concurrency
  /\ paused' = s.paused
  /\ queue' = s.queue
  /\ running' = s.running
  /\ drain' = s.drain
  /\ drainCallback' = s.drainCallback
  /\ notifiers' = s.notifiers
  /\ deferred' = s.deferred
  /\ onError' = s.onError
  /\ taskCompleted' = s.taskCompleted
  /\ taskAdded' = s.taskAdded
  /\ inflight' = s.inflight
  /\ events' = s.events

\* new DeferQueue(options), options drawn from opts
Construct(opts) ==
  /\ \E options \in opts :
       /\ concurrency = Concurrency(options)
       /\ hist = [Hist0 EXCEPT !.options = options]
  /\ paused = FALSE
  /\ queue = <<>>
  /\ running = 0
  /\ drain = "noop"
  /\ drainCallback = "undefined"
  /\ notifiers = <<>>
  /\ deferred = [n \in NotifierIds |-> [status |-> "none", name |-> "", val |-> ""]]
  /\ \E cfg \in HookConfigs :
       /\ onError = cfg[1]
       /\ taskCompleted = cfg[2]
       /\ taskAdded = cfg[3]
  /\ inflight = {}
  /\ events = <<>>
  /\ last = [op |-> "new", id |-> 0]
  /\ nextTask = 1
  /\ nextNotifier = 1
  /\ completions = 0

\* a queue constructed with an explicit concurrency
InitQueue == Construct(Options \ {{}})

Init == InitQueue /\ track = FALSE /\ order = FALSE /\ throws = {}

\* the same program, with the notifier watching each task recorded in hist
InitTracked == InitQueue /\ track = TRUE /\ order = FALSE /\ throws = {}

\* the same program with every hook assigned, and with the way each task
\* entered the queue recorded
InitOrdered ==
  /\ InitQueue
  /\ onError /\ taskCompleted /\ taskAdded
  /\ track = FALSE /\ order = TRUE /\ throws = {}

SetDrained ==
  \E callback \in DrainHooks :
    /\ Assign(DoSetDrained(St, callback))
    /\ last' = [op |-> "setDrained", id |-> 0]
    /\ hist' = [hist EXCEPT !.drained = callback]
    /\ UNCHANGED <<nextTask, nextNotifier, completions, track, order, throws>>

CreateNotifier ==
  /\ nextNotifier <= MaxNotifiers
  /\ Assign(DoCreateNotifier(St, nextNotifier))
  /\ last' = [op |-> "createNotifier", id |-> nextNotifier]
  /\ nextNotifier' = nextNotifier + 1
  /\ hist' = [hist EXCEPT !.notif[nextNotifier].due =
                             completions + Len(notifiers) + 1]
  /\ UNCHANGED <<nextTask, completions, track, order, throws>>

Push ==
  /\ nextTask <= MaxTasks
  /\ \E shape \in {TaskShape(nextTask)} :
       LET task == [id |-> nextTask, shape |-> shape, name |-> TaskName(nextTask)]
           s == DoPush(St, task)
       IN /\ Assign(s)
          /\ hist' = MarkStarted(Admit(hist, task, "push", s.events), s.events)
  /\ last' = [op |-> "push", id |-> nextTask]
  /\ nextTask' = nextTask + 1
  /\ UNCHANGED <<nextNotifier, completions, track, order, throws>>

Unshift ==
  /\ nextTask <= MaxTasks
  /\ \E shape \in {TaskShape(nextTask)} :
       LET task == [id |-> nextTask, shape |-> shape, name |-> TaskName(nextTask)]
           s == DoUnshift(St, task)
       IN /\ Assign(s)
          /\ hist' = MarkStarted(Admit(hist, task, "unshift", s.events), s.events)
  /\ last' = [op |-> "unshift", id |-> nextTask]
  /\ nextTask' = nextTask + 1
  /\ UNCHANGED <<nextNotifier, completions, track, order, throws>>

Pause ==
  /\ Assign(DoPause(St))
  /\ last' = [op |-> "pause", id |-> 0]
  /\ hist' = [hist EXCEPT !.paused = TRUE]
  /\ UNCHANGED <<nextTask, nextNotifier, completions, track, order, throws>>

Resume ==
  /\ LET s == DoResume(St)
     IN /\ Assign(s)
        /\ hist' = MarkStarted([hist EXCEPT !.paused = FALSE], s.events)
  /\ last' = [op |-> "resume", id |-> 0]
  /\ UNCHANGED <<nextTask, nextNotifier, completions, track, order, throws>>

Kill ==
  /\ Assign(DoKill(St))
  /\ last' = [op |-> "kill", id |-> 0]
  /\ hist' = [hist EXCEPT
                !.task = [t \in TaskIds |->
                            IF @[t].status = "pending"
                            THEN [@[t] EXCEPT !.status = "discarded"] ELSE @[t]]]
  /\ UNCHANGED <<nextTask, nextNotifier, completions, track, order, throws>>

\* the body of an in-flight task settles and the worker calls done
Settle ==
  \E cb \in inflight, out \in Outcomes :
    LET s == Worker(St, cb, out)
    IN /\ Assign(s)
       /\ hist' = MarkStarted(MarkSettled(hist, cb, out, s.events, completions + 1),
                              s.events)
       /\ last' = [op |-> "settle", id |-> cb.id]
       /\ completions' = completions + Count(s.events, "handler")
       /\ UNCHANGED <<nextTask, nextNotifier, track, order, throws>>

Next ==
  \/ SetDrained
  \/ CreateNotifier
  \/ Push
  \/ Unshift
  \/ Pause
  \/ Resume
  \/ Kill
  \/ Settle

Spec == Init /\ [][Next]_vars

SpecTracked == InitTracked /\ [][Next]_vars

\* what tells a Settle step from every other step: it records the settled
\* task, one of those in flight, as the last operation
SettleStep == \E cb \in inflight : last' = [op |-> "settle", id |-> cb.id]

\* what tells the Resume step of a paused queue from every other step
ResumeStep == paused /\ paused' = FALSE

\* every started task body eventually settles (the promise the worker
\* awaits): while a task is in flight a Settle step eventually happens;
\* and a caller that paused the queue eventually resumes it
Fairness == WF_last(SettleStep) /\ WF_paused(ResumeStep)

\* the operations that reach the executor; createNotifier and the drained
\* setter neither start, hold back nor discard a task
NextLive ==
  \/ Push
  \/ Unshift
  \/ Pause
  \/ Resume
  \/ Kill
  \/ Settle

SpecLive == Init /\ [][NextLive]_vars /\ Fairness

SpecOrdered == InitOrdered /\ [][Next]_vars

\* a queue constructed with or without a concurrency option
InitAnyOptions ==
  Construct(Options) /\ track = FALSE /\ order = FALSE /\ throws = {}

SpecAnyOptions == InitAnyOptions /\ [][Next]_vars

\* the same program with every hook assigned, where the hooks called by the
\* completion handler may be functions that throw
ThrowingHooks == {{}, {"taskCompleted"}, {"onError"}}

InitHooks ==
  /\ InitQueue
  /\ onError /\ taskCompleted /\ taskAdded
  /\ track = FALSE /\ order = FALSE
  /\ throws \in ThrowingHooks

SpecHooks == InitHooks /\ [][Next]_vars


\* -------------------------------------------------------------- claims
Created(n) == deferred[n].status # "none"

Resolved(n) == deferred[n].status \in {"fulfilled", "rejected"}

Status(t) == hist.task[t].status

\* the settled result a task's own outcome amounts to
ExactOutcome(t) ==
  IF hist.task[t].out.ok
  THEN [status |-> "fulfilled", name |-> TaskName(t), val |-> hist.task[t].out.val]
  ELSE [status |-> "rejected", name |-> "", val |-> hist.task[t].out.val]

NonEmpty == inflight # {} \/ queue # <<>>

Min(a, b) == IF a < b THEN a ELSE b

\* C1: notifiers are matched to completions positionally, first in first
\* out: a notifier that was k-th in the waiting list when created is
\* resolved by the k-th completion after its creation (`due`), no completion
\* passes over a waiting notifier, and an earlier notifier is never
\* resolved after a later one.
C1_NotifiersResolveFifo ==
  /\ \A n \in NotifierIds :
       /\ Resolved(n) => hist.notif[n].at = hist.notif[n].due
       /\ Created(n) /\ completions >= hist.notif[n].due => Resolved(n)
  /\ \A n, m \in NotifierIds :
       n < m /\ Resolved(m) => Resolved(n) /\ hist.notif[n].at < hist.notif[m].at
  /\ \A i \in DOMAIN notifiers :
       /\ ~Resolved(notifiers[i])
       /\ i > 1 => notifiers[i - 1] < notifiers[i]

\* two notifiers resolved in creation order, the first one by the task
\* that was submitted later (it completed first)
C1_Witness ==
  /\ last.op = "settle"
  /\ Resolved(1) /\ Resolved(2)
  /\ hist.notif[1].by > hist.notif[2].by
  /\ hist.notif[1].at = 1 /\ hist.notif[2].at = 2

\* C2: a notifier created just before a task is submitted, in any state of
\* the queue, is resolved with that task's exact outcome: fulfilled with
\* its name and response if it succeeded, rejected with its failure if it
\* failed.
C2_WatchedTaskOutcome ==
  \A t \in TaskIds :
    hist.task[t].watch # 0 /\ Resolved(hist.task[t].watch)
      => /\ Status(t) = "settled"
         /\ deferred[hist.task[t].watch] = ExactOutcome(t)

\* C3: every task the executor ran got exactly one outcome: its completion
\* handler ran once and took one branch, onError (if assigned) and never
\* taskCompleted when it failed, taskCompleted (if assigned) and never
\* onError when it succeeded; a task that has not settled got neither.
C3_OneOutcomePerTask ==
  \A t \in TaskIds :
    LET h == hist.task[t]
    IN /\ h.handler <= 1 /\ h.onError <= 1 /\ h.taskCompleted <= 1
       /\ h.onError + h.taskCompleted <= 1
       /\ Status(t) = "settled" =>
            /\ h.handler = 1
            /\ h.out.ok => h.onError = 0
                           /\ h.taskCompleted = (IF taskCompleted THEN 1 ELSE 0)
            /\ ~h.out.ok => h.taskCompleted = 0
                            /\ h.onError = (IF onError THEN 1 ELSE 0)
       /\ Status(t) # "settled" =>
            h.handler = 0 /\ h.onError = 0 /\ h.taskCompleted = 0

\* C4: a failing task is absorbed: onError(error, {name}) is called if
\* assigned, the notifier that was waiting is resolved with
\* {status: rejected, reason: error} for that same error, the task's slot is
\* given back, and a pending task is started if the queue is not paused.
C4_FailureAbsorbed ==
  last.op = "settle" /\ ~hist.task[last.id].out.ok =>
    LET err == hist.task[last.id].out.val
    IN /\ Count(events, "handler") = 1
       /\ Of(events, "onError") =
            (IF onError THEN <<Ev("onError", 0, TaskName(last.id), err, "")>>
             ELSE <<>>)
       /\ Count(events, "taskCompleted") = 0
       /\ \A n \in NotifierIds :
            hist.notif[n].due = completions =>
              /\ deferred[n] = [status |-> "rejected", name |-> "", val |-> err]
              /\ Of(events, "resolve") = <<Ev("resolve", n, "", err, "rejected")>>
       /\ \A cb \in inflight : cb.id # last.id
       /\ running = Cardinality(inflight)
       /\ ~paused /\ queue # <<>> => running = concurrency
       /\ \A t \in StartedIds(events) : Status(t) = "running"

\* C5: kill() leaves size() = 0 whatever was pending, running or paused,
\* and calls the assigned drained hook exactly once during the call.
C5_KillDiscardsAndDrains ==
  last.op = "kill" =>
    /\ Size(St) = 0
    /\ \A t \in TaskIds : Status(t) # "pending"
    /\ Of(events, "drained") =
         (IF hist.drained # "undefined"
          THEN <<Ev("drained", 0, "", hist.drained, "")>> ELSE <<>>)

\* kill() on a running queue that had a pending task and a task in flight
C5_Witness ==
  /\ last.op = "kill" /\ ~paused
  /\ inflight # {}
  /\ \E t \in TaskIds : Status(t) = "discarded"
  /\ Count(events, "drained") = 1

C7_DrainedOncePerDrain ==
  [][hist.drained # "undefined" /\ hist'.drained = hist.drained =>
       /\ NonEmpty /\ ~NonEmpty' =>
            Of(events', "drained") = <<Ev("drained", 0, "", hist.drained, "")>>
       /\ last'.op = "kill" => Count(events', "drained") = 1
       /\ last'.op = "settle" /\ NonEmpty' => Count(events', "drained") = 0]_vars

\* the last running task settled with nothing pending: drained fired once
C7_Witness ==
  /\ last.op = "settle" /\ ~NonEmpty
  /\ hist.drained # "undefined"
  /\ Count(events, "drained") = 1

\* C8: between pause() and the next resume() no task starts and the
\* pending order only grows at its ends (or is emptied by kill()); a task
\* in flight still settles and is delivered; resume() starts the pending
\* tasks from the front, in order, as far as free slots allow.
C8_PauseHoldsPending ==
  [][/\ hist.paused /\ hist'.paused =>
          /\ StartedIds(events') = {}
          /\ inflight' \subseteq inflight
          /\ \/ queue' = queue
             \/ queue' = <<>>
             \/ /\ Len(queue') = Len(queue) + 1
                /\ \/ SubSeq(queue', 1, Len(queue)) = queue
                   \/ Tail(queue') = queue
     /\ hist.paused /\ last'.op = "settle" /\ inflight' # inflight =>
          /\ Count(events', "handler") = 1
          /\ hist'.task[last'.id].status = "settled"
          /\ queue' = queue
     /\ hist.paused /\ ~hist'.paused =>
          LET k == Min(Len(queue), concurrency - running)
              started == Of(events', "start")
          IN /\ Len(started) = k
             /\ \A i \in 1..k : started[i].id = queue[i].id
             /\ queue' = SubSeq(queue, k + 1, Len(queue))]_vars

\* resume() with more pending tasks than free slots: the front ones start
C8_Witness ==
  /\ last.op = "resume"
  /\ Count(events, "start") = 1
  /\ queue # <<>>
  /\ Cardinality(inflight) = 2

\* C9: size() is the number of admitted tasks still waiting to start
\* (not in flight, not discarded by kill()): 0 on a new queue, one more per
\* push or unshift while paused, and after resume() what the free slots
\* could not take (0 when they take everything).
C9_SizeCountsPending ==
  /\ [](/\ Size(St) = Cardinality({t \in TaskIds : Status(t) = "pending"})
        /\ last.op = "new" => Size(St) = 0)
  /\ [][/\ hist.paused /\ nextTask' # nextTask => Size(St)' = Size(St) + 1
        /\ hist.paused /\ ~hist'.paused =>
             Size(St)' = Size(St) - Min(Size(St), concurrency - Cardinality(inflight))]_vars

\* two tasks were queued while paused and one is left after resume()
C9_Witness ==
  /\ last.op = "resume"
  /\ Size(St) = 1
  /\ Cardinality(inflight) = 1
  /\ concurrency = 1

\* C10: isIdle() is true exactly when no task is running and none is
\* pending: true on a new queue, false right after a task is admitted, and
\* true only if every admitted task has settled or been discarded.
C10_IdleIffNoWork ==
  /\ IsIdle(St) <=> (inflight = {}
                     /\ \A t \in TaskIds : Status(t) \notin {"pending", "running"})
  /\ last.op = "new" => IsIdle(St)
  /\ last.op \in {"push", "unshift"} => ~IsIdle(St)
  /\ IsIdle(St) => \A t \in TaskIds :
                     t < nextTask => Status(t) \in {"settled", "discarded"}
  /\ \A cb \in inflight : Status(cb.id) = "running"

\* idle again after one task settled and another was discarded
C10_Witness ==
  /\ IsIdle(St)
  /\ \E t \in TaskIds : Status(t) = "settled"
  /\ \E t \in TaskIds : Status(t) = "discarded"

Started(t) == Status(t) \in {"running", "settled"}

\* position of task id among the workers called by an operation, 0 if none
StartPos(evs, id) ==
  LET starts == Of(evs, "start")
  IN IF \E i \in DOMAIN starts : starts[i].id = id
     THEN CHOOSE i \in DOMAIN starts : starts[i].id = id
     ELSE 0

\* C11: a task put by unshift in front of a pending task t (`before`)
\* starts before t, whether t was pushed or unshifted earlier, so the tasks
\* unshifted while paused start after resume() in the reverse order of
\* their unshift calls and before every pending push; with concurrency 1
\* their completions are delivered in that same order, so the notifiers
\* created in advance are resolved by them in that reverse order.
C11_UnshiftRunsFirst ==
  /\ [](\A u \in TaskIds :
          LET t == hist.task[u].before
          IN t # 0 =>
               /\ Started(t) => Started(u)
               /\ Status(u) = "discarded" => Status(t) = "discarded"
               /\ concurrency = 1 /\ Status(t) = "settled" =>
                    /\ Status(u) = "settled"
                    /\ hist.task[u].idx < hist.task[t].idx
                    /\ \A n, m \in NotifierIds :
                         hist.notif[n].by = u /\ hist.notif[m].by = t => n < m)
  /\ [][\A u \in TaskIds :
          LET t == hist'.task[u].before
          IN t # 0 /\ StartPos(events', t) # 0 /\ hist.task[u].status = "pending" =>
               /\ StartPos(events', u) # 0
               /\ StartPos(events', u) < StartPos(events', t)]_vars

\* three tasks held by a pause, the last two unshifted, ran in the order
\* 3, 2, 1 after resume() and resolved the two notifiers in that order
C11_Witness ==
  /\ concurrency = 1
  /\ hist.task[3].before = 2 /\ hist.task[2].before = 1
  /\ \A t \in 1..3 : Status(t) = "settled"
  /\ hist.notif[1].by = 3 /\ hist.notif[2].by = 2

\* C11 as stated, for any concurrency: of two tasks that both completed,
\* the one unshifted in front of the other was delivered first.
C11_ResolveInReverseOrder ==
  \A u \in TaskIds :
    LET t == hist.task[u].before
    IN t # 0 /\ Status(t) = "settled" /\ Status(u) = "settled" =>
         hist.task[u].idx < hist.task[t].idx

\* C12: with concurrency 1, of two tasks submitted via push the earlier one
\* is out of the queue (delivered, or discarded by kill()) before the later
\* one is delivered, and the completion handler (hooks and notifier
\* resolution) runs for them in the order of their submission.
C12_PushCompletesInOrder ==
  concurrency = 1 =>
    \A t, u \in TaskIds :
      /\ t < u
      /\ hist.task[t].via = "push" /\ hist.task[u].via = "push"
      /\ Started(u)
      => /\ Status(t) \in {"settled", "discarded"}
         /\ Status(t) = "settled" /\ Status(u) = "settled" =>
              hist.task[t].idx < hist.task[u].idx

\* three pushed tasks completed one after the other
C12_Witness ==
  /\ concurrency = 1
  /\ \A t \in 1..3 : hist.task[t].via = "push" /\ Status(t) = "settled"
  /\ hist.task[1].idx = 1 /\ hist.task[2].idx = 2 /\ hist.task[3].idx = 3

\* C13: for any concurrency, if every started body eventually settles and
\* a paused queue is eventually resumed, every submitted task that kill()
\* does not discard eventually completes, and the completion handler runs
\* exactly once for a completed task and never for any other.
C13_EveryTaskCompletesOnce ==
  /\ \A t \in TaskIds :
       Status(t) \in {"pending", "running"} ~>
         (hist.task[t].handler = 1 \/ Status(t) = "discarded")
  /\ [](\A t \in TaskIds :
          /\ hist.task[t].handler <= 1
          /\ hist.task[t].handler = 1 <=> Status(t) = "settled")

\* with concurrency 1 three tasks were submitted and the last of them
\* completed after waiting for the other two
C13_Witness ==
  /\ concurrency = 1
  /\ last.op = "settle" /\ last.id = 3
  /\ \A t \in 1..3 : Status(t) = "settled" /\ hist.task[t].handler = 1

\* C13 as stated: every submitted task eventually completes once.
C13_EverySubmittedTaskCompletes ==
  \A t \in TaskIds : Status(t) # "none" ~> hist.task[t].handler = 1

\* the concurrency the caller configured, 10 when no option was given
Configured == IF hist.options = {} THEN 10 ELSE CHOOSE n \in hist.options : TRUE

\* C14: in every reachable state the tasks in flight are at most the
\* configured concurrency (10 when no option was given); a task submitted
\* when that many are in flight is left pending, and a pending task starts
\* only in a step that has a free slot (a completion or resume()).
C14_ConcurrencyBounded ==
  /\ [](/\ Cardinality(inflight) <= Configured
        /\ hist.options = {} => concurrency = 10
        /\ running <= Configured)
  /\ [][/\ nextTask' # nextTask /\ Cardinality(inflight) = Configured =>
             /\ inflight' = inflight
             /\ hist'.task[nextTask].status = "pending"
             /\ nextTask \in QueueIds(queue')
        /\ \A t \in StartedIds(events') :
             hist.task[t].status = "pending" =>
               /\ last'.op \in {"settle", "resume"}
               /\ Cardinality(inflight \cap inflight') < Configured]_vars

\* with { concurrency: 2 } a third task waited until a completion freed a
\* slot, and both slots are in use again
C14_Witness ==
  /\ hist.options = {2}
  /\ last.op = "settle"
  /\ StartedIds(events) = {3}
  /\ Cardinality(inflight) = 2

\* the task with this id, as the caller submitted it
Submitted(id) == [id |-> id, shape |-> TaskShape(id), name |-> TaskName(id)]

\* C15: every push and unshift, paused or not, calls taskAdded (if assigned)
\* exactly once with the task as submitted (its original shape), before the
\* executor gets the task (so before its worker can be called), and no
\* other operation calls it; when a task's taskCompleted or onError is
\* called its taskAdded call has already been made.
C15_TaskAddedOnSubmit ==
  /\ last.op \in {"push", "unshift"} =>
       LET task == Submitted(last.id)
       IN /\ Of(events, "taskAdded") =
               (IF taskAdded
                THEN <<Ev("taskAdded", task.id, task.name, task.shape, "")>>
                ELSE <<>>)
          /\ taskAdded => events[1].type = "taskAdded"
          /\ last.id \in QueueIds(queue) \/ last.id \in StartedIds(events)
  /\ last.op \notin {"push", "unshift"} => Count(events, "taskAdded") = 0
  /\ \A t \in TaskIds :
       /\ hist.task[t].added = (IF taskAdded /\ Status(t) # "none" THEN 1 ELSE 0)
       /\ hist.task[t].onError + hist.task[t].taskCompleted > 0 /\ taskAdded =>
            hist.task[t].added = 1

\* an object task pushed on a paused queue: taskAdded got the object
C15_Witness ==
  /\ last.op = "push" /\ hist.paused
  /\ TaskShape(last.id) = "object"
  /\ Of(events, "taskAdded") =
       <<Ev("taskAdded", last.id, TaskName(last.id), "object", "")>>
  /\ \E t \in TaskIds : hist.task[t].taskCompleted = 1 /\ hist.task[t].added = 1

\* C16: the worker calls done exactly once per task execution, whatever
\* hooks are assigned and whether they return or throw: done(null, {name,
\* response}) when the body succeeded, done(error, {name}) when it threw or
\* rejected, never both.
C16_DoneOncePerExecution ==
  /\ \A t \in TaskIds :
       /\ hist.task[t].done <= 1
       /\ Status(t) = "settled" => hist.task[t].done = 1
  /\ last.op = "settle" =>
       Of(events, "done") =
         <<Ev("done", 0, TaskName(last.id),
              IF hist.task[last.id].out.ok THEN "null"
              ELSE hist.task[last.id].out.val, "")>>

\* the status a notifier resolved by task t must carry
RealStatus(t) == IF hist.task[t].out.ok THEN "fulfilled" ELSE "rejected"

\* C17: the notifier a completion pops is resolved once, by that handler
\* invocation, with the status of the task's real outcome (fulfilled if the
\* body succeeded, rejected if it failed); a notifier is never popped and
\* left unresolved, and a completion with no waiting notifier resolves none.
C17_PoppedNotifierResolved ==
  /\ last.op = "settle" =>
       LET popped == Of(events, "handler")
           resolved == Of(events, "resolve")
       IN /\ Len(popped) = 1
          /\ popped[1].id = 0 => resolved = <<>>
          /\ popped[1].id # 0 =>
               /\ Len(resolved) = 1
               /\ resolved[1].id = popped[1].id
               /\ resolved[1].status = RealStatus(last.id)
  /\ \A n \in NotifierIds :
       Created(n) /\ (\A i \in DOMAIN notifiers : notifiers[i] # n) =>
         /\ Resolved(n)
         /\ hist.notif[n].by # 0
         /\ deferred[n].status = RealStatus(hist.notif[n].by)

\* the positions of the calls of the given types among the events
Positions(evs, types) == {i \in DOMAIN evs : evs[i].type \in types}

\* C18: within one completion the hook (taskCompleted or onError, if
\* assigned) is called first, then the waiting notifier is resolved, then,
\* only if nothing is pending or running any more, drained fires; so in
\* the state in which a notifier is seen resolved its hook call has been
\* made, and after the last task drained has fired as well.
C18_HookThenNotifierThenDrained ==
  last.op = "settle" =>
    LET hooks == Positions(events, {"onError", "taskCompleted"})
        resolves == Positions(events, {"resolve"})
        drains == Positions(events, {"drained"})
    IN /\ \A i \in hooks, j \in resolves : i < j
       /\ \A j \in resolves, k \in drains : j < k
       /\ \A i \in hooks, k \in drains : i < k
       /\ drains # {} => ~NonEmpty
       /\ \A j \in resolves :
            /\ events[j].status = "fulfilled" /\ taskCompleted =>
                 \E i \in hooks : events[i].type = "taskCompleted"
            /\ events[j].status = "rejected" /\ onError =>
                 \E i \in hooks : events[i].type = "onError"
            /\ ~NonEmpty /\ hist.drained # "undefined" => drains # {}

\* the last task failed: onError, then the notifier, then drained
C18_Witness ==
  /\ last.op = "settle" /\ ~NonEmpty
  /\ Len(events) >= 3
  /\ \E i, j, k \in DOMAIN events :
       /\ i < j /\ j < k
       /\ events[i].type = "onError"
       /\ events[j].type = "resolve"
       /\ events[k].type = "drained"

\* C19: the waiting list changes only by createNotifier (append at the
\* tail) and by a completion (remove the head); push, unshift, pause,
\* resume, kill and assigning drained leave the list and every notifier as
\* they are, and the notifiers still in the list are pending.
C19_WaitingListFrame ==
  /\ [](\A i \in DOMAIN notifiers : deferred[notifiers[i]] = Pending)
  /\ [][/\ last'.op = "createNotifier" => notifiers' = Append(notifiers, last'.id)
        /\ last'.op = "settle" =>
             notifiers' = (IF notifiers = <<>> THEN <<>> ELSE Tail(notifiers))
        /\ last'.op \notin {"createNotifier", "settle"} =>
             notifiers' = notifiers /\ deferred' = deferred
        /\ \A n \in NotifierIds :
             deferred[n] # deferred'[n] =>
               \/ last'.op = "createNotifier" /\ n = last'.id
               \/ last'.op = "settle" /\ notifiers # <<>> /\ n = Head(notifiers)]_vars

\* kill() discarded a task while two notifiers were waiting: both are
\* still in the list
C19_Witness ==
  /\ last.op = "kill"
  /\ Len(notifiers) = 2
  /\ \E t \in TaskIds : Status(t) = "discarded"

\* C20: kill() touches only the tasks that have not started: the tasks in
\* flight stay in flight and later settle, each delivered once through its
\* hook and the oldest waiting notifier with its own outcome; a discarded
\* task never starts and never gets taskCompleted, onError, or a notifier.
C20_KillSparesInFlight ==
  /\ \A t \in TaskIds :
       Status(t) = "discarded" =>
         /\ hist.task[t].handler = 0 /\ hist.task[t].done = 0
         /\ hist.task[t].onError = 0 /\ hist.task[t].taskCompleted = 0
         /\ \A n \in NotifierIds : hist.notif[n].by # t
         /\ t \notin QueueIds(queue) /\ \A cb \in inflight : cb.id # t
  /\ last.op = "kill" =>
       /\ \A cb \in inflight : Status(cb.id) = "running"
       /\ \A type \in {"start", "handler", "onError", "taskCompleted", "resolve"} :
            Count(events, type) = 0
  /\ /\ last.op = "settle"
     /\ ~hist.task[last.id].afterKill
     /\ \E d \in TaskIds : Status(d) = "discarded"
     => /\ hist.task[last.id].handler = 1
        /\ hist.task[last.id].onError =
             (IF ~hist.task[last.id].out.ok /\ onError THEN 1 ELSE 0)
        /\ hist.task[last.id].taskCompleted =
             (IF hist.task[last.id].out.ok /\ taskCompleted THEN 1 ELSE 0)
        /\ \A n \in NotifierIds :
             hist.notif[n].due = completions =>
               deferred[n] = ExactOutcome(last.id)

====
